---------------------------- MODULE Spec2Model ----------------------------
(***************************************************************************)
(* Model of simple-rag-server.py: the SunziKnowledgeBase (document store,  *)
(* keyword search, excerpt extraction, answer composition) and the HTTP    *)
(* handlers that read it.                                                  *)
(*                                                                         *)
(* A Python str is a sequence of one-character strings.  The alphabet is   *)
(* "a", "b" (lower case), "A" (upper case of "a"), " " and "\n"            *)
(* (whitespace) and "#" (the heading marker).  The fixed Japanese text of  *)
(* generate_answer is outside the parser's character set; each fixed       *)
(* fragment is one opaque character of the answer string (LQUOTE, RQUOTE,  *)
(* YORI, OTHERS, NOTFOUND).                                                *)
(***************************************************************************)
EXTENDS Integers, Sequences, FiniteSets, TLC

VARIABLES dirExists, files, documents, pc, request, response

vars == <<dirExists, files, documents, pc, request, response>>

-----------------------------------------------------------------------------
(* Bounds of the model.                                                    *)

\* the files of the data directory
MaxFiles == 2

\* the characters of a question
MaxQueryLen == 3

\* the paragraphs of a content handed to extract_relevant_content on its own
MaxParas == 5

-----------------------------------------------------------------------------
(* Python str primitives.                                                  *)

NL == "\n"

Whitespace == {" ", NL}

LowerChar(c) == IF c = "A" THEN "a" ELSE c

\* the sequence with the elements of f, held as a tuple
AsSeq(f) == f \o <<>>

\* str.lower()
Lower(s) == AsSeq([i \in 1..Len(s) |-> LowerChar(s[i])])

\* s[i:i+len(w)] == w  (i is 1-based)
MatchAt(w, s, i) ==
    /\ i >= 1
    /\ i + Len(w) - 1 <= Len(s)
    /\ \A k \in 1..Len(w) : s[i + k - 1] = w[k]

\* w in s
Contains(w, s) == \E i \in 1..(Len(s) - Len(w) + 1) : MatchAt(w, s, i)

\* s.startswith(p)
StartsWith(s, p) == MatchAt(p, s, 1)

\* the least position >= i at which w occurs in s, or 0 when there is none
NextMatch(w, s, i) ==
    LET at == {j \in i..(Len(s) - Len(w) + 1) : MatchAt(w, s, j)}
    IN  IF at = {} THEN 0 ELSE CHOOSE j \in at : \A k \in at : j <= k

RECURSIVE CountFrom(_, _, _)
CountFrom(w, s, i) ==
    LET j == NextMatch(w, s, i)
    IN  IF j = 0 THEN 0 ELSE 1 + CountFrom(w, s, j + Len(w))

\* s.count(w): the number of non-overlapping occurrences, scanning from the left
Count(w, s) == IF w = <<>> THEN Len(s) + 1 ELSE CountFrom(w, s, 1)

\* s.strip()
Strip(s) ==
    LET keep == {i \in 1..Len(s) : s[i] \notin Whitespace}
    IN  IF keep = {} THEN <<>>
        ELSE LET lo == CHOOSE i \in keep : \A j \in keep : i <= j
                 hi == CHOOSE i \in keep : \A j \in keep : i >= j
             IN  SubSeq(s, lo, hi)

RECURSIVE SplitWsFrom(_, _, _)
SplitWsFrom(s, i, cur) ==
    IF i > Len(s) THEN (IF cur = <<>> THEN <<>> ELSE <<cur>>)
    ELSE IF s[i] \in Whitespace
         THEN (IF cur = <<>> THEN <<>> ELSE <<cur>>) \o SplitWsFrom(s, i + 1, <<>>)
         ELSE SplitWsFrom(s, i + 1, Append(cur, s[i]))

\* s.split(): split on runs of whitespace, no empty strings
SplitWs(s) == SplitWsFrom(s, 1, <<>>)

RECURSIVE SplitSepFrom(_, _, _)
SplitSepFrom(s, sep, start) ==
    LET j == NextMatch(sep, s, start)
    IN  IF j = 0 THEN <<SubSeq(s, start, Len(s))>>
        ELSE <<SubSeq(s, start, j - 1)>> \o SplitSepFrom(s, sep, j + Len(sep))

\* s.split(sep), sep non-empty
SplitSep(s, sep) == SplitSepFrom(s, sep, 1)

RECURSIVE Join(_, _)
\* sep.join(parts)
Join(sep, parts) ==
    IF parts = <<>> THEN <<>>
    ELSE IF Len(parts) = 1 THEN parts[1]
    ELSE parts[1] \o sep \o Join(sep, Tail(parts))

\* s[:n] for any integer n
SliceTo(s, n) ==
    IF n >= 0 THEN SubSeq(s, 1, IF n < Len(s) THEN n ELSE Len(s))
    ELSE SubSeq(s, 1, IF Len(s) + n > 0 THEN Len(s) + n ELSE 0)

-----------------------------------------------------------------------------
(* SunziKnowledgeBase: pure parts.                                         *)

\* the text of a document without a heading line
UnknownTitle == <<"U", "n", "k", "n", "o", "w", "n", " ", "T", "i", "t", "l", "e">>

\* extract_title(content)
extract_title(content) ==
    LET lines == SplitSep(content, <<NL>>)
        heads == {i \in 1..Len(lines) : StartsWith(lines[i], <<"#", " ">>)}
    IN  IF heads = {} THEN UnknownTitle
        ELSE LET i == CHOOSE h \in heads : \A g \in heads : h <= g
             IN  Strip(SubSeq(lines[i], 3, Len(lines[i])))

\* the number of paragraphs an excerpt keeps
MaxParagraphs == 3

\* the number of characters of the best excerpt an answer keeps
AnswerLimit == 500

\* any(word in paragraph for word in query_words): the paragraph as written
ParagraphMatches_cased(paragraph, query_words) ==
    \E k \in 1..Len(query_words) : Contains(query_words[k], paragraph)

\* any(word in paragraph_lower for word in query_words)
ParagraphMatches(paragraph, query_words) ==
    LET paragraph_lower == Lower(paragraph)
    IN  \E k \in 1..Len(query_words) : Contains(query_words[k], paragraph_lower)

\* extract_relevant_content with the cut paragraphs[:3] taken before the filter
extract_relevant_content_cutfirst(content, query_words) ==
    LET paragraphs == SliceTo(SplitSep(content, <<NL, NL>>), 3)
        relevant_paragraphs ==
            SelectSeq(AsSeq([i \in 1..Len(paragraphs) |->
                                [keep |-> \E k \in 1..Len(query_words) :
                                              Contains(query_words[k], Lower(paragraphs[i])),
                                 text |-> Strip(paragraphs[i])]]),
                      LAMBDA p : p.keep)
    IN  Join(<<NL, NL>>,
             AsSeq([i \in 1..Len(relevant_paragraphs) |-> relevant_paragraphs[i].text]))

\* extract_relevant_content(content, query_words)
extract_relevant_content(content, query_words) ==
    LET paragraphs == SplitSep(content, <<NL, NL>>)
        relevant_paragraphs ==
            SelectSeq(AsSeq([i \in 1..Len(paragraphs) |->
                                [keep |-> ParagraphMatches(paragraphs[i], query_words),
                                 text |-> Strip(paragraphs[i])]]),
                      LAMBDA p : p.keep)
        texts == AsSeq([i \in 1..Len(relevant_paragraphs) |-> relevant_paragraphs[i].text])
    IN  Join(<<NL, NL>>, SliceTo(texts, MaxParagraphs))

RECURSIVE SumCounts_presence(_, _)
\* the score loop with score += 1 for a token that occurs
SumCounts_presence(query_words, content_lower) ==
    IF query_words = <<>> THEN 0
    ELSE (IF Contains(Head(query_words), content_lower) THEN 1 ELSE 0)
         + SumCounts_presence(Tail(query_words), content_lower)

RECURSIVE SumCounts(_, _)
\* the score loop: for word in query_words: if word in content_lower: score += count
SumCounts(query_words, content_lower) ==
    IF query_words = <<>> THEN 0
    ELSE (IF Contains(Head(query_words), content_lower)
          THEN Count(Head(query_words), content_lower) ELSE 0)
         + SumCounts(Tail(query_words), content_lower)

\* the score of one document for a query
Score(doc, query) == SumCounts(SplitWs(Lower(query)), Lower(doc.content))

\* the SearchResult built for a document (the caller keeps it when its score is positive;
\* the excerpt of a document of score 0 is never computed)
MakeResult(doc, query) ==
    LET score == Score(doc, query)
    IN  [title |-> doc.title,
         content |-> IF score > 0
                     THEN extract_relevant_content(doc.content, SplitWs(Lower(query)))
                     ELSE <<>>,
         relevance_score |-> score,
         file_path |-> doc.name]

RECURSIVE Matching_keepzero(_, _)
\* the loop with the test score >= 0
Matching_keepzero(docs, query) ==
    IF docs = <<>> THEN <<>>
    ELSE LET score == SumCounts(SplitWs(Lower(query)), Lower(Head(docs).content))
         IN  <<[title |-> Head(docs).title,
                content |-> extract_relevant_content(Head(docs).content,
                                                     SplitWs(Lower(query))),
                relevance_score |-> score,
                file_path |-> Head(docs).name]>>
             \o Matching_keepzero(Tail(docs), query)

RECURSIVE Matching(_, _)
\* the loop over self.documents.items(), in insertion order
Matching(docs, query) ==
    IF docs = <<>> THEN <<>>
    ELSE LET r == MakeResult(Head(docs), query)
         IN  (IF r.relevance_score > 0 THEN <<r>> ELSE <<>>) \o Matching(Tail(docs), query)

RECURSIVE InsertByScore_tiesfirst(_, _)
\* r goes before the elements of its own score: an ascending sort, reversed
InsertByScore_tiesfirst(sorted, r) ==
    IF sorted = <<>> THEN <<r>>
    ELSE IF Head(sorted).relevance_score > r.relevance_score
         THEN <<Head(sorted)>> \o InsertByScore_tiesfirst(Tail(sorted), r)
         ELSE <<r>> \o sorted

RECURSIVE InsertByScore(_, _)
\* r goes after every element whose score is >= its own
InsertByScore(sorted, r) ==
    IF sorted = <<>> THEN <<r>>
    ELSE IF Head(sorted).relevance_score >= r.relevance_score
         THEN <<Head(sorted)>> \o InsertByScore(Tail(sorted), r)
         ELSE <<r>> \o sorted

RECURSIVE SortByScore(_)
\* results.sort(key=relevance_score, reverse=True): stable, descending
SortByScore(results) ==
    IF results = <<>> THEN <<>>
    ELSE InsertByScore(SortByScore(SubSeq(results, 1, Len(results) - 1)),
                       results[Len(results)])

\* search(query, max_results) over the store docs
search(docs, query, max_results) ==
    SliceTo(SortByScore(Matching(docs, query)), max_results)

NotFoundMessage == <<"NOTFOUND">>

AnswerHeader(title) == <<"LQUOTE">> \o title \o <<"RQUOTE", "YORI", NL, NL>>

OthersHeader == <<NL, NL, "OTHERS">>

\* [r.title for r in results]
Titles(results) == AsSeq([i \in 1..Len(results) |-> results[i].title])

\* generate_answer without the message for an empty result sequence
generate_answer_nomessage(query, results) ==
    IF results = <<>> THEN <<>>
    ELSE AnswerHeader(results[1].title)
         \o SliceTo(results[1].content, AnswerLimit)
         \o (IF Len(results) > 1
             THEN OthersHeader \o Join(<<",", " ">>, Titles(Tail(results)))
             ELSE <<>>)

\* generate_answer with the cut one character late
generate_answer_cutlate(query, results) ==
    IF results = <<>> THEN NotFoundMessage
    ELSE AnswerHeader(results[1].title)
         \o SliceTo(results[1].content, AnswerLimit + 1)
         \o (IF Len(results) > 1
             THEN OthersHeader \o Join(<<",", " ">>, Titles(Tail(results)))
             ELSE <<>>)

\* generate_answer(query, results)
generate_answer(query, results) ==
    IF results = <<>> THEN NotFoundMessage
    ELSE AnswerHeader(results[1].title)
         \o SliceTo(results[1].content, AnswerLimit)
         \o (IF Len(results) > 1
             THEN OthersHeader \o Join(<<",", " ">>, Titles(Tail(results)))
             ELSE <<>>)

\* self.documents[key] = value on an insertion-ordered dict
DictSet(docs, doc) ==
    IF \E i \in 1..Len(docs) : docs[i].name = doc.name
    THEN [i \in 1..Len(docs) |-> IF docs[i].name = doc.name THEN doc ELSE docs[i]]
    ELSE Append(docs, doc)

DataDir == <<"/", "a", "p", "p", "/", "d", "a", "t", "a">>

RECURSIVE LoadFiles_abort(_, _)
\* the loop with the try around it: the first failing read ends the loading
LoadFiles_abort(docs, fs) ==
    IF fs = <<>> \/ ~Head(fs).readable THEN docs
    ELSE LoadFiles_abort(
            DictSet(docs, [name |-> Head(fs).name,
                           title |-> extract_title(Head(fs).content),
                           content |-> Head(fs).content,
                           file_path |-> DataDir \o <<"/">> \o Head(fs).name]),
            Tail(fs))

RECURSIVE LoadFiles(_, _)
\* the body of the for loop of load_documents over the files of the directory
LoadFiles(docs, fs) ==
    IF fs = <<>> THEN docs
    ELSE LoadFiles(
            IF Head(fs).readable
            THEN DictSet(docs, [name |-> Head(fs).name,
                                title |-> extract_title(Head(fs).content),
                                content |-> Head(fs).content,
                                file_path |-> DataDir \o <<"/">> \o Head(fs).name])
            ELSE docs,
            Tail(fs))

\* load_documents(): the store it leaves, starting from the store docs
load_documents(docs) == IF ~dirExists THEN docs ELSE LoadFiles(docs, files)

-----------------------------------------------------------------------------
(* The inputs: the files of the data directory and the requests.           *)

\* all sequences over S of length at most n
SeqsUpTo(S, n) == UNION {[1..k -> S] : k \in 0..n}

Digits == <<"1", "2", "3", "4", "5", "6", "7", "8", "9">>

\* the name of the i-th file glob yields
FileName(i) == <<Digits[i], ".", "m", "d">>

\* The contents a file of the server's directory may have:
\*   a heading and a paragraph in which "aa" overlaps itself;
\*   one paragraph, no heading;
\*   no "a" at all;
\*   five paragraphs, four of them with an "a", in upper case and padded.
FileContents ==
    { <<"#", " ", "A", "b", NL, NL, "a", "a", "a">>,
      <<"a">>,
      <<"b", " ", "b">>,
      <<"A", NL, NL, " ", "a", " ", NL, NL, "b", NL, NL, NL, "a", NL, NL, "a", "a">> }

\* the directory listings of at most MaxFiles files with contents from C:
\* file i is readable with some content, or its read fails
Listings(C) ==
    UNION {
      { fs \in [1..n -> [name : {FileName(i) : i \in 1..n},
                         readable : BOOLEAN,
                         content : C \cup {<<>>}]] :
          \A i \in 1..n :
              /\ fs[i].name = FileName(i)
              /\ (fs[i].readable <=> fs[i].content \in C) } :
      n \in 0..MaxFiles }

QueryAlphabet == {"a", "A", "b", " "}

Questions == {AsSeq(q) : q \in SeqsUpTo(QueryAlphabet, MaxQueryLen)}

\* max_results: int = 3
DefaultMaxResults == 3

\* the max_results a request may carry: QueryRequest.max_results is any int
MaxResultsValues == (0 - 1)..DefaultMaxResults

NoMessage == [kind |-> "none"]

-----------------------------------------------------------------------------
(* The server.  The handlers are coroutines without an await: each runs to *)
(* its return on the event loop, and the response is sent before the next  *)
(* request is handled.                                                     *)

InitOver(C) ==
    /\ dirExists \in BOOLEAN
    /\ files \in Listings(C)
    /\ (~dirExists => files = <<>>)
    /\ documents = <<>>
    /\ pc = "start"
    /\ request = NoMessage
    /\ response = NoMessage

Init == InitOver(FileContents)

\* kb = SunziKnowledgeBase(): __init__ empties the store and loads it
Startup ==
    /\ pc = "start"
    /\ documents' = load_documents(<<>>)
    /\ pc' = "serving"
    /\ UNCHANGED <<dirExists, files, request, response>>

\* POST /search, with a search that drops from the store the documents it skips
search_knowledge_pruning(question, max_results) ==
    /\ pc = "serving"
    /\ request' = [kind |-> "search", question |-> question, max_results |-> max_results]
    /\ LET results == search(documents, question, max_results)
       IN  response' = [kind |-> "search",
                        question |-> question,
                        results |-> results,
                        answer |-> generate_answer(question, results)]
    /\ documents' = SelectSeq(documents, LAMBDA d : Score(d, question) > 0)
    /\ pc' = "responded"
    /\ UNCHANGED <<dirExists, files>>

\* POST /search
search_knowledge(question, max_results) ==
    /\ pc = "serving"
    /\ request' = [kind |-> "search", question |-> question, max_results |-> max_results]
    /\ LET results == search(documents, question, max_results)
       IN  response' = [kind |-> "search",
                        question |-> question,
                        results |-> results,
                        answer |-> generate_answer(question, results)]
    /\ pc' = "responded"
    /\ UNCHANGED <<dirExists, files, documents>>

\* GET /health
health_check ==
    /\ pc = "serving"
    /\ request' = [kind |-> "health"]
    /\ response' = [kind |-> "health", status |-> "healthy",
                    documents_loaded |-> Len(documents)]
    /\ pc' = "responded"
    /\ UNCHANGED <<dirExists, files, documents>>

\* GET /documents
list_documents ==
    /\ pc = "serving"
    /\ request' = [kind |-> "documents"]
    /\ response' = [kind |-> "documents",
                    documents |-> AsSeq([i \in 1..Len(documents) |->
                                            [filename |-> documents[i].name,
                                             title |-> documents[i].title]])]
    /\ pc' = "responded"
    /\ UNCHANGED <<dirExists, files, documents>>

\* the response leaves; the server takes the next request
Reply ==
    /\ pc = "responded"
    /\ pc' = "serving"
    /\ request' = NoMessage
    /\ response' = NoMessage
    /\ UNCHANGED <<dirExists, files, documents>>

SearchRequest == \E q \in Questions, m \in MaxResultsValues : search_knowledge(q, m)

Next == Startup \/ SearchRequest \/ health_check \/ list_documents \/ Reply

Spec == Init /\ [][Next]_vars

-----------------------------------------------------------------------------
(* The server over a directory of long files, asked a few questions: the   *)
(* answers that reach AnswerLimit.                                         *)

\* a paragraph of 1 + n characters whose only "a" is its first character
LongParagraph(n) == <<"a">> \o AsSeq([i \in 1..n |-> "b"])

\* The contents a file of the long directory may have:
\*   a heading with an "A" and a paragraph of AnswerLimit + 1 characters;
\*   one paragraph of exactly AnswerLimit characters;
\*   one short paragraph.
LongFileContents ==
    { <<"#", " ", "A", NL, NL>> \o LongParagraph(AnswerLimit),
      LongParagraph(AnswerLimit - 1),
      <<"a">> }

LongQuestions == { <<"a">>, <<"A", " ", "a">>, <<" ">> }

InitLong == InitOver(LongFileContents)

LongSearchRequest ==
    \E q \in LongQuestions, m \in MaxResultsValues : search_knowledge(q, m)

NextLong == Startup \/ LongSearchRequest \/ Reply

SpecLong == InitLong /\ [][NextLong]_vars

-----------------------------------------------------------------------------
(* extract_relevant_content on its own: any content of at most MaxParas    *)
(* paragraphs, and any token list search can hand it.                      *)

\* the paragraphs: one that matches "a", one padded and in upper case, and one
\* without an "a" (the empty content is the one empty paragraph)
ExtractParagraphs == { <<"a">>, <<" ", "A", NL>>, <<"b">> }

ExtractContents ==
    { Join(<<NL, NL>>, AsSeq(ps)) : ps \in SeqsUpTo(ExtractParagraphs, MaxParas) }

\* query_words as search builds it
ExtractWordLists == { SplitWs(Lower(q)) : q \in Questions }

InitExtract ==
    /\ dirExists = FALSE
    /\ files = <<>>
    /\ documents = <<>>
    /\ pc = "call"
    /\ \E c \in ExtractContents, ws \in ExtractWordLists :
           request = [kind |-> "extract", content |-> c, query_words |-> ws]
    /\ response = NoMessage

\* the call extract_relevant_content(content, query_words)
ExtractCall ==
    /\ pc = "call"
    /\ response' = [kind |-> "extract",
                    value |-> extract_relevant_content(request.content,
                                                       request.query_words)]
    /\ pc' = "return"
    /\ UNCHANGED <<dirExists, files, documents, request>>

NextExtract == ExtractCall

SpecExtract == InitExtract /\ [][NextExtract]_vars

-----------------------------------------------------------------------------
(* Vocabulary of the properties.                                           *)

\* a search request has been answered
Searched == pc = "responded" /\ response.kind = "search"

\* the lowercase whitespace-delimited tokens of a question
Tokens(q) == SplitWs(Lower(q))

\* the number of places of s at which w occurs, overlapping or not
Occurrences(w, s) == Cardinality({i \in 1..(Len(s) - Len(w) + 1) : MatchAt(w, s, i)})

RECURSIVE SumOccurrences(_, _)
\* the sum over the tokens ts (each as often as it is listed) of the number of
\* places of s at which the token occurs
SumOccurrences(ts, s) ==
    IF ts = <<>> THEN 0 ELSE Occurrences(Head(ts), s) + SumOccurrences(Tail(ts), s)

RECURSIVE SumNonOverlapping(_, _)
\* the sum over the tokens ts (each as often as it is listed) of the number of
\* non-overlapping occurrences of the token in s, counted from the left
SumNonOverlapping(ts, s) ==
    IF ts = <<>> THEN 0 ELSE Count(Head(ts), s) + SumNonOverlapping(Tail(ts), s)

\* some token of q occurs in the lowercased content of doc
TokenOccursIn(doc, q) ==
    \E k \in 1..Len(Tokens(q)) : Occurrences(Tokens(q)[k], Lower(doc.content)) > 0

\* the position in the store of the document with this key
StoreIndex(name) == CHOOSE k \in 1..Len(documents) : documents[k].name = name

\* document k of the store is the only one in which a token of q occurs
OnlyMatch(k, q) ==
    /\ TokenOccursIn(documents[k], q)
    /\ \A j \in 1..Len(documents) : j # k => ~TokenOccursIn(documents[j], q)

-----------------------------------------------------------------------------
(* Properties of the server (specification Spec).                          *)

\* C1: the results of a search are in non-increasing order of relevance_score,
\* and two results of equal score are in the order in which their documents
\* were inserted into the store.
C1_SortedStable ==
    Searched =>
        LET rs == response.results
        IN  \A i, j \in 1..Len(rs) :
                i < j =>
                    /\ rs[i].relevance_score >= rs[j].relevance_score
                    /\ (rs[i].relevance_score = rs[j].relevance_score
                            => StoreIndex(rs[i].file_path) < StoreIndex(rs[j].file_path))

\* C1 witness: two documents of equal score were returned, in insertion order.
C1_Witness ==
    /\ Searched
    /\ Len(response.results) = 2
    /\ response.results[1].relevance_score = response.results[2].relevance_score
    /\ response.results[1].file_path = documents[1].name
    /\ response.results[2].file_path = documents[2].name

\* C2: every result has relevance_score >= 1, and a document in whose
\* lowercased content no token of the question occurs is not among the results
\* (for the empty and the all-whitespace question too).
C2_ScoreAtLeastOne ==
    Searched =>
        /\ \A i \in 1..Len(response.results) : response.results[i].relevance_score >= 1
        /\ \A k \in 1..Len(documents) :
               ~TokenOccursIn(documents[k], request.question)
                   => \A i \in 1..Len(response.results) :
                          response.results[i].file_path # documents[k].name

\* C2 witness: a non-empty all-whitespace question was asked of a non-empty store
\* and nothing came back.
C2_Witness ==
    /\ Searched
    /\ request.question # <<>>
    /\ Tokens(request.question) = <<>>
    /\ request.max_results >= 1
    /\ Len(documents) >= 1
    /\ response.results = <<>>

\* C3 as stated: when the tokens of the question occur in exactly one document D,
\* search (asked for a positive number of results, as a Query has it) returns
\* exactly one result, with D's key and with the sum over the tokens of the
\* number of occurrences of the token in D's lowercased content.
C3_AsStated ==
    (Searched /\ request.max_results >= 1) =>
        \A k \in 1..Len(documents) :
            OnlyMatch(k, request.question) =>
                /\ Len(response.results) = 1
                /\ response.results[1].file_path = documents[k].name
                /\ response.results[1].relevance_score =
                       SumOccurrences(Tokens(request.question),
                               Lower(documents[k].content))

\* C3 amended: when the tokens of the question occur in exactly one document D,
\* search returns exactly one result if max_results >= 1 and none otherwise; the
\* result has D's key, and its score is the sum over the tokens (a repeated token
\* counted each time) of the number of non-overlapping occurrences of the token
\* in D's lowercased content, counted from the left.
C3_OneMatch ==
    Searched =>
        \A k \in 1..Len(documents) :
            OnlyMatch(k, request.question) =>
                IF request.max_results >= 1
                THEN /\ Len(response.results) = 1
                     /\ response.results[1].file_path = documents[k].name
                     /\ response.results[1].relevance_score =
                            SumNonOverlapping(Tokens(request.question),
                                    Lower(documents[k].content))
                ELSE response.results = <<>>

\* C3 witness: the only matching document is the second of two, and the token
\* of the question overlaps itself in it.
C3_Witness ==
    /\ Searched
    /\ Len(documents) = 2
    /\ OnlyMatch(2, request.question)
    /\ request.max_results >= 1
    /\ Len(response.results) = 1
    /\ response.results[1].relevance_score
           < SumOccurrences(Tokens(request.question), Lower(documents[2].content))

\* C4: when no token of the question occurs in any document (the store may be
\* empty), search returns the empty sequence and the answer is the fixed
\* not-found message, which holds no title and no excerpt.
C4_NoMatch ==
    Searched =>
        ((\A k \in 1..Len(documents) : ~TokenOccursIn(documents[k], request.question))
            => /\ response.results = <<>>
               /\ response.answer = NotFoundMessage
               /\ \A k \in 1..Len(documents) :
                      /\ (documents[k].title # <<>>
                             => ~Contains(documents[k].title, response.answer))
                      /\ \A i \in 1..Len(documents[k].content) :
                             ~Contains(<<documents[k].content[i]>>, response.answer))

\* C4 witness: a question with a token was asked of a store of two documents,
\* neither of which has the token.
C4_Witness ==
    /\ Searched
    /\ Len(documents) = 2
    /\ Tokens(request.question) # <<>>
    /\ request.max_results >= 1
    /\ \A k \in 1..Len(documents) : ~TokenOccursIn(documents[k], request.question)
    /\ response.answer = NotFoundMessage

\* C7 as stated: every accepted search request has a positive max_results, and
\* the results are the first max_results of the sorted matching documents (all
\* of them when fewer match), so at most max_results.
C7_AsStated ==
    Searched =>
        /\ request.max_results >= 1
        /\ Len(response.results) <= request.max_results
        /\ LET all == SortByScore(Matching(documents, request.question))
           IN  response.results =
                   SubSeq(all, 1, IF Len(all) < request.max_results
                                  THEN Len(all) ELSE request.max_results)

\* C8: loading never fails as a whole.  Once startup has ended the store is
\* empty when the directory does not exist, and otherwise holds exactly the
\* files that were read, in order, each under its filename; a file whose read
\* failed has no entry and costs no other file its entry.
C8_LoadSkipsFailures ==
    pc # "start" =>
        IF ~dirExists THEN documents = <<>>
        ELSE LET read == SelectSeq(files, LAMBDA f : f.readable)
             IN  /\ Len(documents) = Len(read)
                 /\ \A i \in 1..Len(read) :
                        /\ documents[i].name = read[i].name
                        /\ documents[i].content = read[i].content
                        /\ documents[i].title = extract_title(read[i].content)

\* C8 witness: the first file could not be read and the second is in the store.
C8_Witness ==
    /\ pc = "serving"
    /\ Len(files) = 2
    /\ ~files[1].readable
    /\ files[2].readable
    /\ Len(documents) = 1
    /\ documents[1].name = files[2].name

\* what loading made of the files of the directory
LoadedAtStartup == IF dirExists THEN LoadFiles(<<>>, files) ELSE <<>>

\* C9: once loading has ended no step (a /search, /health or /documents request,
\* in any order) changes the store: its keys, titles and contents stay what
\* loading made of the files, and every /health response reports the number of
\* files loading read.
C9_StoreReadOnly ==
    [][pc # "start" =>
          /\ documents' = documents
          /\ documents' = LoadedAtStartup
          /\ (pc' = "responded" /\ response'.kind = "health"
                => response'.documents_loaded
                       = Len(SelectSeq(files, LAMBDA f : f.readable)))]_vars

\* C9 witness: a search over a store of two documents has returned results.
C9_Witness ==
    /\ Searched
    /\ Len(documents) = 2
    /\ Len(response.results) >= 1

\* C10: every result has a non-empty excerpt: some paragraph of its document
\* holds a token of the question, and the answer for a non-empty result
\* sequence carries the first character of the best excerpt after its header.
C10_ExcerptNonEmpty ==
    Searched =>
        /\ \A i \in 1..Len(response.results) :
               LET r == response.results[i]
                   ps == SplitSep(documents[StoreIndex(r.file_path)].content, <<NL, NL>>)
               IN  /\ r.content # <<>>
                   /\ \E p \in 1..Len(ps) :
                          \E k \in 1..Len(Tokens(request.question)) :
                              Occurrences(Tokens(request.question)[k], Lower(ps[p])) > 0
        /\ (response.results # <<>> =>
               LET h == Len(AnswerHeader(response.results[1].title))
               IN  /\ Len(response.answer) > h
                   /\ response.answer[h + 1] = response.results[1].content[1]
                   /\ response.answer[h + 1] \notin Whitespace)

\* C10 witness: a result was built for a document of several paragraphs, whose
\* content holds the token only in upper case.
C10_Witness ==
    /\ Searched
    /\ Len(response.results) >= 1
    /\ LET d == documents[StoreIndex(response.results[1].file_path)]
       IN  /\ Len(SplitSep(d.content, <<NL, NL>>)) >= 2
           /\ \A k \in 1..Len(Tokens(request.question)) :
                  ~Contains(Tokens(request.question)[k], d.content)

-----------------------------------------------------------------------------
(* Properties of extract_relevant_content (specification SpecExtract).     *)

\* the paragraphs of the content of the call
CallParagraphs == SplitSep(request.content, <<NL, NL>>)

\* the positions of the paragraphs ps that hold a token of ws, whatever the case
Qualifying(ps, ws) ==
    {i \in 1..Len(ps) :
        \E k \in 1..Len(ws) : Occurrences(Lower(ws[k]), Lower(ps[i])) > 0}

\* the first 3 positions of Q
FirstThree(Q) == {i \in Q : Cardinality({j \in Q : j < i}) < 3}

\* the paragraphs of ps at the positions F, in their order, trimmed
Trimmed(ps, F) ==
    LET at == SelectSeq(AsSeq([i \in 1..Len(ps) |-> i]), LAMBDA i : i \in F)
    IN  AsSeq([k \in 1..Len(at) |-> Strip(ps[at[k]])])

-----------------------------------------------------------------------------
(* Properties of generate_answer (specification SpecLong).                 *)

\* C6: for a non-empty result sequence the answer begins with the title of the
\* first result in quotes, then the rest of the header, then the first
\* AnswerLimit (500) characters of its content, or all of them when there are
\* fewer; the comma-joined titles of the other results, in order, follow if and
\* only if there is more than one result.
C6_AnswerShape ==
    (Searched /\ response.results # <<>>) =>
        LET a == response.answer
            t == response.results[1].title
            c == response.results[1].content
            n == IF Len(c) < 500 THEN Len(c) ELSE 500
            rest == SubSeq(a, Len(t) + 6 + n, Len(a))
        IN  /\ Len(a) >= Len(t) + 5 + n
            /\ a[1] = "LQUOTE"
            /\ SubSeq(a, 2, Len(t) + 1) = t
            /\ a[Len(t) + 2] = "RQUOTE"
            /\ SubSeq(a, Len(t) + 3, Len(t) + 5) = <<"YORI", NL, NL>>
            /\ SubSeq(a, Len(t) + 6, Len(t) + 5 + n) = SubSeq(c, 1, n)
            /\ (rest # <<>> <=> Len(response.results) > 1)
            /\ (Len(response.results) > 1 =>
                   rest = <<NL, NL, "OTHERS">>
                          \o Join(<<",", " ">>,
                                  AsSeq([i \in 1..(Len(response.results) - 1) |->
                                            response.results[i + 1].title])))

\* C6 witness: the best excerpt is longer than 500 characters and there is a
\* second result.
C6_Witness ==
    /\ Searched
    /\ Len(response.results) = 2
    /\ Len(response.results[1].content) > 500
    /\ response.results[1].title # response.results[2].title

=============================================================================
